---- MODULE Spec2Model ----
(***************************************************************************)
(* Annan-Shogi-Web: the session server of src/server.py.                   *)
(*                                                                         *)
(* Text is modelled as a sequence of glyphs, one ASCII name per displayed  *)
(* character (the module is ASCII only):                                   *)
(*   "Z1".."Z9"   the full-width digits of _ZENKAKU_NUMS                   *)
(*   "K1".."K9"   the kanji numerals of _KANJI_NUMS                        *)
(*   "g:FU" ...   the kanji of _PIECE_KANJI                                *)
(*   "DOU" "WSP"  the two characters of the same-square token              *)
(*   "UTSU"       the drop marker, "NARI" the promotion marker             *)
(*   "SENTE" "GOTE"  the two turn marks                                    *)
(*   "0".."9" "(" ")" " "   themselves;  "NL" the line feed                *)
(*   "H1".."H5"   the text of one header line each (none holds a line feed)*)
(* The empty Python string is the empty sequence.                          *)
(*                                                                         *)
(* The rules engine (package annan_shogi) and the AI agent are imported by *)
(* server.py and are not part of its source; they are modelled from the    *)
(* interface the specification gives them (sections 3, 4.3 and 6).         *)
(***************************************************************************)
EXTENDS Integers, Sequences, FiniteSets, TLC

VARIABLES game, ai_color, ai_player, lastOp, response, agent_move, roundTrip,
          requested_mode, running, entry

vars == <<game, ai_color, ai_player, lastOp, response, agent_move, roundTrip,
          requested_mode, running, entry>>

\* ------------------------------------------------------------------ bounds

\* The longest move history the model explores.
MaxPly == 3

\* ------------------------------------------------------------ server tables

BLACK == "BLACK"
WHITE == "WHITE"
Color == {BLACK, WHITE}

\* JSON null / Python None, where it stands among strings.
NoneStr == "None"

\* JSON null, where it stands among records.
JNull == [null |-> TRUE]

PieceTypeValues ==
  {"FU", "KY", "KE", "GI", "KI", "KA", "HI", "OU",
   "TO", "NY", "NK", "NG", "UM", "RY"}

\* server.py 55-60: piece kind -> its one-character kanji.
_PIECE_KANJI == [pt \in PieceTypeValues |-> <<"g:" \o pt>>]

\* server.py 63: Python list, index 0 is the empty string.
_ZENKAKU_NUMS ==
  << <<>>, <<"Z1">>, <<"Z2">>, <<"Z3">>, <<"Z4">>, <<"Z5">>,
     <<"Z6">>, <<"Z7">>, <<"Z8">>, <<"Z9">> >>

\* server.py 64: Python list, index 0 is the empty string.
_KANJI_NUMS ==
  << <<>>, <<"K1">>, <<"K2">>, <<"K3">>, <<"K4">>, <<"K5">>,
     <<"K6">>, <<"K7">>, <<"K8">>, <<"K9">> >>

\* Python's 0-based list indexing.
PyIndex(list, i) == list[i + 1]

\* ------------------------------------------------------------- rules engine

\* Square(file, rank) as _game_state_to_json builds it: file 9..1, rank 0..8.
Files == 1..9
Ranks == 0..8
Square(file, rank) == [file |-> file, rank |-> rank]
Squares == {Square(f, r) : f \in Files, r \in Ranks}

Piece(pt, c) == [piece_type |-> pt, color |-> c]

HandTypes == {"FU", "KY", "KE", "GI", "KI", "KA", "HI"}

Opponent(c) == IF c = BLACK THEN WHITE ELSE BLACK

BackRank == <<"KY", "KE", "GI", "KI", "OU", "KI", "GI", "KE", "KY">>

\* board[sq] of an empty square: Python's None.
NoPiece == [null |-> TRUE]

\* A board is nine rows (rank 0 first) of nine cells (file 1 first), each a
\* piece or NoPiece.  board[sq]:
BoardAt(board, sq) == board[sq.rank + 1][sq.file]

IsOccupied(board, sq) == BoardAt(board, sq) # NoPiece

BoardPut(board, sq, pc) == [board EXCEPT ![sq.rank + 1][sq.file] = pc]

\* The starting position (the transcript header names it: even game).
InitialBoard ==
  [row \in 1..9 |-> [file \in 1..9 |->
     CASE row = 1 -> Piece(BackRank[file], WHITE)
       [] row = 9 -> Piece(BackRank[file], BLACK)
       [] row = 3 -> Piece("FU", WHITE)
       [] row = 7 -> Piece("FU", BLACK)
       [] row = 2 /\ file = 8 -> Piece("HI", WHITE)
       [] row = 2 /\ file = 2 -> Piece("KA", WHITE)
       [] row = 8 /\ file = 8 -> Piece("KA", BLACK)
       [] row = 8 /\ file = 2 -> Piece("HI", BLACK)
       [] OTHER -> NoPiece]]

EmptyHand == [pt \in HandTypes |-> 0]

InitialState ==
  [board |-> InitialBoard,
   hand  |-> [c \in Color |-> EmptyHand],
   turn  |-> BLACK]

\* Game(): a fresh session.
NewGame ==
  [state          |-> InitialState,
   result         |-> "ONGOING",
   _move_history  |-> <<>>,
   _state_history |-> <<>>]

\* Move: a drop (dst, drop kind) or a board move (src, dst, promote).
DropMove(pt, dst) == [is_drop |-> TRUE, dst |-> dst, drop |-> pt]
BoardMove(src, dst, promote) ==
  [is_drop |-> FALSE, src |-> src, dst |-> dst, promote |-> promote]

\* The squares the moves of the model touch: three squares of file 1 (a white
\* pawn, an empty square, a black pawn) and the white lance on rank 0.
PlaySquares == {Square(1, 0), Square(1, 2), Square(1, 4), Square(1, 6)}

\* The kinds the model drops: those a play square can yield, and the bishop,
\* which no hand of the model holds.
DropKinds == {"FU", "KY", "KA"}

Moves ==
  {BoardMove(s, d, p) : s \in PlaySquares, d \in PlaySquares, p \in BOOLEAN}
    \cup {DropMove(pt, d) : pt \in DropKinds, d \in PlaySquares}

Promotable == {"FU", "KY", "KE", "GI", "KA", "HI"}

Promoted(pt) ==
  CASE pt = "FU" -> "TO" [] pt = "KY" -> "NY" [] pt = "KE" -> "NK"
    [] pt = "GI" -> "NG" [] pt = "KA" -> "UM" [] pt = "HI" -> "RY"
    [] OTHER -> pt

Unpromoted(pt) ==
  CASE pt = "TO" -> "FU" [] pt = "NY" -> "KY" [] pt = "NK" -> "KE"
    [] pt = "NG" -> "GI" [] pt = "UM" -> "KA" [] pt = "RY" -> "HI"
    [] OTHER -> pt

\* The three far ranks of the mover.
InPromotionZone(sq, c) ==
  IF c = BLACK THEN sq.rank \in 0..2 ELSE sq.rank \in 6..8

\* A pawn or lance on the mover's last rank could never move again.
LastRank(sq, c) == IF c = BLACK THEN sq.rank = 0 ELSE sq.rank = 8

\* What the engine accepts in a state: an over-approximation of the rules (a
\* piece may go to any square not held by its own side), so that every
\* history of the engine is a history of the model.
IsLegal(state, m) ==
  IF m.is_drop
  THEN /\ ~IsOccupied(state.board, m.dst)
       /\ state.hand[state.turn][m.drop] > 0
       /\ ~(m.drop \in {"FU", "KY"} /\ LastRank(m.dst, state.turn))
  ELSE /\ IsOccupied(state.board, m.src)
       /\ BoardAt(state.board, m.src).color = state.turn
       /\ m.dst # m.src
       /\ \/ ~IsOccupied(state.board, m.dst)
          \/ /\ BoardAt(state.board, m.dst).color # state.turn
             /\ BoardAt(state.board, m.dst).piece_type # "OU"
       /\ m.promote =>
            /\ BoardAt(state.board, m.src).piece_type \in Promotable
            /\ \/ InPromotionZone(m.src, state.turn)
               \/ InPromotionZone(m.dst, state.turn)
       /\ ~m.promote =>
            ~(/\ BoardAt(state.board, m.src).piece_type \in {"FU", "KY"}
              /\ LastRank(m.dst, state.turn))

LegalMovesIn(state) == {m \in Moves : IsLegal(state, m)}

\* Game.get_legal_moves()
LegalMoves(g) == LegalMovesIn(g.state)

\* The position after a legal move.
AfterMove(state, m) ==
  LET c == state.turn IN
  IF m.is_drop
  THEN [board |-> BoardPut(state.board, m.dst, Piece(m.drop, c)),
        hand  |-> [state.hand EXCEPT ![c][m.drop] = @ - 1],
        turn  |-> Opponent(c)]
  ELSE LET pc     == BoardAt(state.board, m.src)
           moved  == IF m.promote THEN Piece(Promoted(pc.piece_type), c) ELSE pc
           taken  == IsOccupied(state.board, m.dst)
           kind   == Unpromoted(BoardAt(state.board, m.dst).piece_type)
       IN [board |-> BoardPut(BoardPut(state.board, m.src, NoPiece), m.dst, moved),
           hand  |-> IF taken
                     THEN [state.hand EXCEPT ![c][kind] = @ + 1]
                     ELSE state.hand,
           turn  |-> Opponent(c)]

WinOf(c) == IF c = BLACK THEN "BLACK_WIN" ELSE "WHITE_WIN"

\* Game.apply raises on a finished game or an illegal move.
ApplyRaises(g, m) == g.result # "ONGOING" \/ ~IsLegal(g.state, m)

\* Game.apply(move): pushes the move and the state before it, advances the
\* state; the mover has won when the other side is left without a move.
GameApply(g, m) ==
  LET after == AfterMove(g.state, m) IN
  [state          |-> after,
   result         |-> IF LegalMovesIn(after) = {}
                      THEN WinOf(g.state.turn)
                      ELSE "ONGOING",
   _move_history  |-> Append(g._move_history, m),
   _state_history |-> Append(g._state_history, g.state)]

\* Game.undo raises on an empty history.
UndoRaises(g) == g._move_history = <<>>

\* Game.undo(): pops the last move and its snapshot, which becomes the state;
\* the game is ongoing again, as it was before every recorded move.
GameUndo(g) ==
  [state          |-> g._state_history[Len(g._state_history)],
   result         |-> "ONGOING",
   _move_history  |-> SubSeq(g._move_history, 1, Len(g._move_history) - 1),
   _state_history |-> SubSeq(g._state_history, 1, Len(g._state_history) - 1)]

\* Game.resign(): the side to move resigns.
GameResign(g) == [g EXCEPT !.result = WinOf(Opponent(g.state.turn))]

\* Move.to_sfen(): "1g1f", "1g1c+", "P*1e".
Digits == <<"0", "1", "2", "3", "4", "5", "6", "7", "8", "9">>
SfenRanks == <<"a", "b", "c", "d", "e", "f", "g", "h", "i">>
SfenPieces ==
  [pt \in HandTypes |->
     CASE pt = "FU" -> "P" [] pt = "KY" -> "L" [] pt = "KE" -> "N"
       [] pt = "GI" -> "S" [] pt = "KI" -> "G" [] pt = "KA" -> "B"
       [] OTHER -> "R"]

SquareToSfen(sq) == <<PyIndex(Digits, sq.file), PyIndex(SfenRanks, sq.rank)>>

to_sfen(m) ==
  IF m.is_drop
  THEN <<SfenPieces[m.drop], "*">> \o SquareToSfen(m.dst)
  ELSE SquareToSfen(m.src) \o SquareToSfen(m.dst)
         \o (IF m.promote THEN <<"+">> ELSE <<>>)

IsSfenSquare(a, b) ==
  /\ \E f \in Files : PyIndex(Digits, f) = a
  /\ \E r \in Ranks : PyIndex(SfenRanks, r) = b

SquareFromSfen(a, b) ==
  Square(CHOOSE f \in Files : PyIndex(Digits, f) = a,
         CHOOSE r \in Ranks : PyIndex(SfenRanks, r) = b)

\* Whether a token decodes to a move at all.
SfenParses(tok) ==
  \/ /\ Len(tok) = 4
     /\ tok[2] = "*"
     /\ \E pt \in HandTypes : SfenPieces[pt] = tok[1]
     /\ IsSfenSquare(tok[3], tok[4])
  \/ /\ Len(tok) \in {4, 5}
     /\ IsSfenSquare(tok[1], tok[2])
     /\ IsSfenSquare(tok[3], tok[4])
     /\ Len(tok) = 5 => tok[5] = "+"

\* The move a token decodes to.
ParseSfen(tok) ==
  IF tok[2] = "*"
  THEN DropMove(CHOOSE pt \in HandTypes : SfenPieces[pt] = tok[1],
                SquareFromSfen(tok[3], tok[4]))
  ELSE BoardMove(SquareFromSfen(tok[1], tok[2]),
                 SquareFromSfen(tok[3], tok[4]),
                 Len(tok) = 5)

\* Moves a client may ask for that the engine may refuse: a pawn's step and a
\* promoting capture on file 1 (legal in some positions only), a move from a
\* square that stays empty, a move to its own square, a bishop drop.
RefusableMoves ==
  {BoardMove(Square(1, 6), Square(1, 4), FALSE),
   BoardMove(Square(1, 2), Square(1, 6), TRUE),
   BoardMove(Square(5, 4), Square(5, 3), FALSE),
   BoardMove(Square(1, 6), Square(1, 6), FALSE),
   DropMove("KA", Square(1, 4))}

\* The tokens a client sends in a state: every legal move, the refusable
\* moves, the empty token that a request without "move" stands for, and a
\* token that is no move.
SfenInputs(g) ==
  {to_sfen(m) : m \in LegalMoves(g) \cup RefusableMoves}
    \cup {<<>>, <<"x", "y">>}

\* The rules engine's effective kind of the piece on sq: the kind of the
\* friendly piece directly behind it, its own kind when there is none.
get_effective_piece_type(board, sq, color) ==
  LET behind == Square(sq.file, IF color = BLACK THEN sq.rank + 1 ELSE sq.rank - 1)
  IN IF /\ behind.rank \in Ranks
        /\ IsOccupied(board, behind)
        /\ BoardAt(board, behind).color = color
     THEN BoardAt(board, behind).piece_type
     ELSE BoardAt(board, sq).piece_type

\* Where the engine's query raises: the square behind the piece is off the
\* board, so the engine has no square to look at.
EffectiveTypeRaises(board, sq, color) ==
  (IF color = BLACK THEN sq.rank + 1 ELSE sq.rank - 1) \notin Ranks

\* ------------------------------------------------------ notation synthesizer

\* Python's str(n) of a natural number, one glyph per digit.
RECURSIVE PyStr(_)
PyStr(n) ==
  IF n < 10 THEN <<PyIndex(Digits, n)>>
  ELSE PyStr(n \div 10) \o <<PyIndex(Digits, n % 10)>>

\* The format f"{n:>4}": right-aligned in a width of four.
RECURSIVE PadLeft(_, _)
PadLeft(str, width) ==
  IF Len(str) >= width THEN str ELSE PadLeft(<<" ">> \o str, width)

\* "\n".join(lines)
RECURSIVE Join(_)
Join(lines) ==
  IF lines = <<>> THEN <<>>
  ELSE IF Len(lines) = 1 THEN lines[1]
  ELSE lines[1] \o <<"NL">> \o Join(Tail(lines))

\* server.py 69-75
KifHeader == << <<"H1">>, <<"H2">>, <<"H3">>, <<"H4">>, <<"H5">> >>

\* server.py 97: the same-square token, two characters.
SameSquareToken == <<"DOU", "WSP">>

\* server.py 77: the cursor before the first move.
NoSquare == [null |-> TRUE]

\* server.py 81
TurnMark(state) == IF state.turn = BLACK THEN <<"SENTE">> ELSE <<"GOTE">>

\* server.py 87, 99: destination as file glyph then rank glyph.
DstCoords(dst) ==
  PyIndex(_ZENKAKU_NUMS, dst.file) \o PyIndex(_KANJI_NUMS, dst.rank)

\* Mutant of UseSameSquare: the cursor compared with the source square.
UseSameSquareOfSource(prev_dst, m) == prev_dst # NoSquare /\ prev_dst = m.src

\* Mutant of UseSameSquare: only the files compared.
UseSameSquareFileOnly(prev_dst, m) ==
  prev_dst # NoSquare /\ prev_dst.file = m.dst.file

\* server.py 96: a Square is truthy, None is not.
UseSameSquare(prev_dst, m) == prev_dst # NoSquare /\ prev_dst = m.dst

\* Mutant of SrcSuffix: the destination's digits in the parentheses.
SrcSuffixOfDst(m) == <<"(">> \o PyStr(m.dst.file) \o PyStr(m.dst.rank) \o <<")">>

\* server.py 101, 104: the source square as raw digits in parentheses.
SrcSuffix(m) == <<"(">> \o PyStr(m.src.file) \o PyStr(m.src.rank) \o <<")">>

\* Mutant of MoveStrKif: a promoting move shows the kind the piece becomes.
MoveStrKifPromotedGlyph(m, state, prev_dst) ==
  IF m.is_drop
  THEN DstCoords(m.dst) \o _PIECE_KANJI[m.drop] \o <<"UTSU">>
  ELSE LET kind        == BoardAt(state.board, m.src).piece_type
           pc_str      == _PIECE_KANJI[IF m.promote THEN Promoted(kind) ELSE kind]
           promote_str == IF m.promote THEN <<"NARI">> ELSE <<>>
           dst_str     == IF UseSameSquare(prev_dst, m)
                          THEN SameSquareToken
                          ELSE DstCoords(m.dst)
       IN dst_str \o pc_str \o promote_str \o SrcSuffix(m)

\* server.py 83-105: the formal rendering of move m made in state.
MoveStrKif(m, state, prev_dst) ==
  IF m.is_drop
  THEN DstCoords(m.dst) \o _PIECE_KANJI[m.drop] \o <<"UTSU">>
  ELSE LET pc_str      == _PIECE_KANJI[BoardAt(state.board, m.src).piece_type]
           promote_str == IF m.promote THEN <<"NARI">> ELSE <<>>
           dst_str     == IF UseSameSquare(prev_dst, m)
                          THEN SameSquareToken
                          ELSE DstCoords(m.dst)
       IN dst_str \o pc_str \o promote_str \o SrcSuffix(m)

\* server.py 83-105: the log rendering, always with absolute coordinates.
MoveStrLog(m, state) ==
  IF m.is_drop
  THEN TurnMark(state) \o DstCoords(m.dst) \o _PIECE_KANJI[m.drop] \o <<"UTSU">>
  ELSE LET pc_str      == _PIECE_KANJI[BoardAt(state.board, m.src).piece_type]
           promote_str == IF m.promote THEN <<"NARI">> ELSE <<>>
       IN TurnMark(state) \o DstCoords(m.dst) \o pc_str \o promote_str
            \o SrcSuffix(m)

\* Mutant of KifLine: each line ends with its own line feed before the join.
KifLineTrailingNewline(move_num, move_str_kif) ==
  PadLeft(PyStr(move_num), 4) \o <<" ">> \o move_str_kif \o <<"NL">>

\* server.py 108
KifLine(move_num, move_str_kif) ==
  PadLeft(PyStr(move_num), 4) \o <<" ">> \o move_str_kif

\* server.py 78-108: the loop from move i (1-based here) on.
RECURSIVE KifLoop(_, _, _, _, _)
KifLoop(g, i, prev_dst, log_arr, kif_lines) ==
  IF i > Len(g._move_history)
  THEN [log |-> log_arr, kif |-> Join(kif_lines)]
  ELSE LET m     == g._move_history[i]
           state == g._state_history[i]
       IN KifLoop(g, i + 1, m.dst,
                  Append(log_arr, MoveStrLog(m, state)),
                  Append(kif_lines, KifLine(i, MoveStrKif(m, state, prev_dst))))

\* Mutant of _generate_kif_and_log: the cursor is not unset at the start of a
\* run but still holds the destination the previous run ended on.
_generate_kif_and_logStaleCursor(g) ==
  KifLoop(g, 1,
          IF g._move_history = <<>> THEN NoSquare
          ELSE g._move_history[Len(g._move_history)].dst,
          <<>>, KifHeader)

\* server.py 66-110
_generate_kif_and_log(g) == KifLoop(g, 1, NoSquare, <<>>, KifHeader)

\* Mutant of KifRaises: the moving piece looked up on the board as it is now,
\* not in the snapshot.
KifRaisesPostMoveBoard(g) ==
  \E i \in 1..Len(g._move_history) :
    \/ i > Len(g._state_history)
    \/ /\ ~g._move_history[i].is_drop
       /\ ~IsOccupied(g.state.board, g._move_history[i].src)

\* Where the loop raises: no snapshot for a move (IndexError), or no piece on
\* a board move's source square in its snapshot (AttributeError).
KifRaises(g) ==
  \E i \in 1..Len(g._move_history) :
    \/ i > Len(g._state_history)
    \/ /\ ~g._move_history[i].is_drop
       /\ ~IsOccupied(g._state_history[i].board, g._move_history[i].src)

\* ---------------------------------------------------------- state projector

\* server.py 124-148: one cell of the board grid and of the annotation grid.
BoardCell(board, sq) ==
  LET piece == BoardAt(board, sq)
  IN IF piece = NoPiece THEN JNull
     ELSE [type  |-> piece.piece_type,
           kanji |-> _PIECE_KANJI[piece.piece_type],
           color |-> IF piece.color = BLACK THEN "BLACK" ELSE "WHITE"]

\* Mutant of AnnanCell: the king is annotated like every other piece.
AnnanCellKingToo(board, sq) ==
  LET piece == BoardAt(board, sq)
  IN
  IF piece = NoPiece THEN JNull
  ELSE IF EffectiveTypeRaises(board, sq, piece.color) THEN JNull
  ELSE LET eff == get_effective_piece_type(board, sq, piece.color)
       IN IF eff # piece.piece_type
          THEN [effective_type |-> eff, effective_kanji |-> _PIECE_KANJI[eff]]
          ELSE JNull

\* server.py 136-148: one cell of annan_info; a raising query leaves None.
AnnanCell(board, sq) ==
  LET piece == BoardAt(board, sq)
  IN
  IF piece = NoPiece THEN JNull
  ELSE IF piece.piece_type = "OU" THEN JNull
  ELSE IF EffectiveTypeRaises(board, sq, piece.color) THEN JNull
  ELSE LET eff == get_effective_piece_type(board, sq, piece.color)
       IN IF eff # piece.piece_type
          THEN [effective_type |-> eff, effective_kanji |-> _PIECE_KANJI[eff]]
          ELSE JNull

\* server.py 119-150: row rank+1 holds files 9 down to 1.
BoardData(board) ==
  [row \in 1..9 |-> [col \in 1..9 |-> BoardCell(board, Square(10 - col, row - 1))]]

AnnanInfo(board) ==
  [row \in 1..9 |-> [col \in 1..9 |-> AnnanCell(board, Square(10 - col, row - 1))]]

\* server.py 113-179.  in_check is the engine's own verdict on the position
\* and is not part of the model.
_game_state_to_json(g, aiPlayer, aiColor) ==
  LET notation == _generate_kif_and_log(g)
  IN [board       |-> BoardData(g.state.board),
      annan_info  |-> AnnanInfo(g.state.board),
      turn        |-> g.state.turn,
      black_hand  |-> g.state.hand[BLACK],
      white_hand  |-> g.state.hand[WHITE],
      legal_moves |-> IF g.result = "ONGOING"
                      THEN {to_sfen(m) : m \in LegalMoves(g)}
                      ELSE {},
      result      |-> g.result,
      ply         |-> Len(g._move_history),
      ai_enabled  |-> aiPlayer # NoneStr,
      ai_color    |-> aiColor,
      log         |-> notation.log,
      kif         |-> notation.kif]

\* ------------------------------------------------------- session controller

\* _json_response(data, status)
JsonResponse(data, status) == [status |-> status, data |-> data]

\* No answer: nothing was requested yet (Init), or the handler raised outside
\* a try block and the connection was closed without a response.
NoResponse == [status |-> 0, data |-> [none |-> TRUE]]
Crashed == [status |-> 0, data |-> [crashed |-> TRUE]]

\* {"error": str(e)}; the two fixed messages of /api/ai_move (server.py 243,
\* 246) are named by what they say.
ErrorData(msg) == [error |-> msg]
AiNotEnabled == "AI is not enabled"
GameAlreadyOver == "game already over"

\* The session with the answer of one request.
Handled(g, resp) == [game |-> g, response |-> resp]

\* _game_state_to_json raises where the notation loop does.
SnapshotResponse(g, aiPlayer, aiColor) ==
  JsonResponse(_game_state_to_json(g, aiPlayer, aiColor), 200)

\* Mutant of DoState: the notation loop takes the moves off the history as it
\* renders them.
DoStateConsumesHistory(g, aiPlayer, aiColor) ==
  Handled([g EXCEPT !._move_history = <<>>],
          IF KifRaises(g) THEN Crashed
          ELSE SnapshotResponse(g, aiPlayer, aiColor))

\* server.py 195-196: GET /api/state
DoState(g, aiPlayer, aiColor) ==
  Handled(g, IF KifRaises(g) THEN Crashed
             ELSE SnapshotResponse(g, aiPlayer, aiColor))

\* Game.apply(sfen) raises: the token is no move, or the move is refused.
MoveRaises(g, sfen) == ~SfenParses(sfen) \/ ApplyRaises(g, ParseSfen(sfen))

\* server.py 205-212: POST /api/move; apply and the projection share one try.
DoMove(g, sfen, aiPlayer, aiColor) ==
  IF ~SfenParses(sfen)
  THEN Handled(g, JsonResponse(ErrorData("ParseError"), 400))
  ELSE IF ApplyRaises(g, ParseSfen(sfen))
  THEN Handled(g, JsonResponse(ErrorData("IllegalMoveError"), 400))
  ELSE LET g2 == GameApply(g, ParseSfen(sfen))
       IN Handled(g2, IF KifRaises(g2)
                      THEN JsonResponse(ErrorData("Exception"), 400)
                      ELSE SnapshotResponse(g2, aiPlayer, aiColor))

\* Mutant of DoUndo: the snapshot is built before the undo.
DoUndoStaleSnapshot(g, aiPlayer, aiColor) ==
  IF UndoRaises(g)
  THEN Handled(g, JsonResponse(ErrorData("EmptyHistory"), 400))
  ELSE Handled(GameUndo(g), SnapshotResponse(g, aiPlayer, aiColor))

\* Mutant of DoUndo: an undo with nothing to undo answers with the snapshot.
DoUndoEmptyOk(g, aiPlayer, aiColor) ==
  IF UndoRaises(g)
  THEN Handled(g, SnapshotResponse(g, aiPlayer, aiColor))
  ELSE LET g2 == GameUndo(g)
       IN Handled(g2, IF KifRaises(g2)
                      THEN JsonResponse(ErrorData("Exception"), 400)
                      ELSE SnapshotResponse(g2, aiPlayer, aiColor))

\* server.py 214-219: POST /api/undo
DoUndo(g, aiPlayer, aiColor) ==
  IF UndoRaises(g)
  THEN Handled(g, JsonResponse(ErrorData("EmptyHistory"), 400))
  ELSE LET g2 == GameUndo(g)
       IN Handled(g2, IF KifRaises(g2)
                      THEN JsonResponse(ErrorData("Exception"), 400)
                      ELSE SnapshotResponse(g2, aiPlayer, aiColor))

\* Mutant of DoResign: the snapshot is built before the resignation.
DoResignStaleSnapshot(g, aiPlayer, aiColor) ==
  Handled(GameResign(g), SnapshotResponse(g, aiPlayer, aiColor))

\* server.py 221-223: POST /api/resign
DoResign(g, aiPlayer, aiColor) ==
  LET g2 == GameResign(g)
  IN Handled(g2, IF KifRaises(g2) THEN Crashed
                 ELSE SnapshotResponse(g2, aiPlayer, aiColor))

\* Mutant of DoReset: the move list is emptied in place of a new Game().
DoResetClearsMoveList(g, aiPlayer, aiColor) ==
  LET g2 == [g EXCEPT !._move_history = <<>>]
  IN Handled(g2, SnapshotResponse(g2, aiPlayer, aiColor))

\* Mutant of DoReset: the board and the histories are set back, the result
\* is not.
DoResetKeepsResult(g, aiPlayer, aiColor) ==
  LET g2 == [NewGame EXCEPT !.result = g.result]
  IN Handled(g2, SnapshotResponse(g2, aiPlayer, aiColor))

\* server.py 225-227: POST /api/reset
DoReset(g, aiPlayer, aiColor) ==
  Handled(NewGame, IF KifRaises(NewGame) THEN Crashed
                   ELSE SnapshotResponse(NewGame, aiPlayer, aiColor))

\* Mutant of AiColorOf: the mode is compared without regard to case.
AiColorOfIgnoreCase(ai_mode) ==
  IF ai_mode \in {"black", "BLACK"} THEN "BLACK"
  ELSE IF ai_mode \in {"white", "WHITE"} THEN "WHITE"
  ELSE NoneStr

\* server.py 232-238: the assignment a configure request asks for.
AiColorOf(ai_mode) ==
  IF ai_mode = "black" THEN "BLACK"
  ELSE IF ai_mode = "white" THEN "WHITE"
  ELSE NoneStr

\* server.py 239: the answer of POST /api/config.
ConfigResponse(aiColor) ==
  JsonResponse([status |-> "ok", ai_color |-> aiColor], 200)

\* What a client sends as ai_mode; NoneStr is a request without the key.
AiModeInputs == {"black", "white", "none", "BLACK", NoneStr}

\* The agent's answer: a move, or NoMove for Python's None.
NoMove == [null |-> TRUE]

\* ai_player.select_move(game.state, temperature=0.0): some legal move, or
\* none.
AgentChoices(g) == LegalMoves(g) \cup {NoMove}

\* Mutant of DoAiMove: the result is tested before the agent's presence.
DoAiMoveResultFirst(g, move, aiPlayer, aiColor) ==
  IF g.result # "ONGOING"
  THEN Handled(g, JsonResponse(ErrorData(GameAlreadyOver), 400))
  ELSE IF aiPlayer = NoneStr
  THEN Handled(g, JsonResponse(ErrorData(AiNotEnabled), 400))
  ELSE IF move = NoMove
  THEN Handled(g, SnapshotResponse(g, aiPlayer, aiColor))
  ELSE IF ApplyRaises(g, move)
  THEN Handled(g, Crashed)
  ELSE Handled(GameApply(g, move),
               SnapshotResponse(GameApply(g, move), aiPlayer, aiColor))

\* Mutant of DoAiMove: no test for an absent move, so apply(None) raises.
DoAiMoveAppliesNone(g, move, aiPlayer, aiColor) ==
  IF aiPlayer = NoneStr
  THEN Handled(g, JsonResponse(ErrorData(AiNotEnabled), 400))
  ELSE IF g.result # "ONGOING"
  THEN Handled(g, JsonResponse(ErrorData(GameAlreadyOver), 400))
  ELSE IF move = NoMove
  THEN Handled(g, Crashed)
  ELSE IF ApplyRaises(g, move)
  THEN Handled(g, Crashed)
  ELSE Handled(GameApply(g, move),
               SnapshotResponse(GameApply(g, move), aiPlayer, aiColor))

\* Mutant of DoAiMove: the agent moves only for the side it was given.
DoAiMoveOnlyAiSide(g, move, aiPlayer, aiColor) ==
  IF aiPlayer = NoneStr
  THEN Handled(g, JsonResponse(ErrorData(AiNotEnabled), 400))
  ELSE IF g.result # "ONGOING"
  THEN Handled(g, JsonResponse(ErrorData(GameAlreadyOver), 400))
  ELSE IF aiColor # g.state.turn
  THEN Handled(g, JsonResponse(ErrorData("not the AI's turn"), 400))
  ELSE IF move = NoMove
  THEN Handled(g, IF KifRaises(g) THEN Crashed
                  ELSE SnapshotResponse(g, aiPlayer, aiColor))
  ELSE IF ApplyRaises(g, move)
  THEN Handled(g, Crashed)
  ELSE LET g2 == GameApply(g, move)
       IN Handled(g2, IF KifRaises(g2) THEN Crashed
                      ELSE SnapshotResponse(g2, aiPlayer, aiColor))

\* server.py 241-253: POST /api/ai_move
DoAiMove(g, move, aiPlayer, aiColor) ==
  IF aiPlayer = NoneStr
  THEN Handled(g, JsonResponse(ErrorData(AiNotEnabled), 400))
  ELSE IF g.result # "ONGOING"
  THEN Handled(g, JsonResponse(ErrorData(GameAlreadyOver), 400))
  ELSE IF move = NoMove
  THEN Handled(g, IF KifRaises(g) THEN Crashed
                  ELSE SnapshotResponse(g, aiPlayer, aiColor))
  ELSE IF ApplyRaises(g, move)
  THEN Handled(g, Crashed)
  ELSE LET g2 == GameApply(g, move)
       IN Handled(g2, IF KifRaises(g2) THEN Crashed
                      ELSE SnapshotResponse(g2, aiPlayer, aiColor))

\* ------------------------------------------------------------ state machine

\* History variable: what the agent answered in the last request, NotAsked
\* when the last request did not reach it.
NotAsked == [asked |-> FALSE]

\* History variable for the round trip: after a successful /api/move it holds
\* the position and result the move was applied in, an /api/undo that follows
\* at once keeps them (stage "undone"); after /api/reset it holds the result
\* and the number of moves of the session that was thrown away (stage
\* "reset"); every other request clears it.
NoRoundTrip == [stage |-> "none"]

\* History variable: the ai_mode the last request carried, NotAsked when the
\* last request was not /api/config.

\* The clients that talk to the server at the same time.
Clients == {"c1", "c2"}

\* A handler that is not running.
Idle == [pc |-> "idle"]

\* running[c] is the handler serving client c.  Under Spec a request is one
\* step and no handler is ever seen running; ServeSpec below runs the
\* handlers in steps.
NoneRunning == [c \in Clients |-> Idle]

\* The script that started the server (variable entry): server.py itself, or
\* run_test_server.py, which imports it.
EntryPoints == {"server.py", "run_test_server.py"}

\* server.py 26-52: the agent is loaded, or its import failed, once and for
\* all; a fresh game, no AI side.
Init ==
  /\ game = NewGame
  /\ ai_color = NoneStr
  /\ ai_player \in {"AIPlayer", NoneStr}
  /\ lastOp = "start"
  /\ response = NoResponse
  /\ agent_move = NotAsked
  /\ roundTrip = NoRoundTrip
  /\ requested_mode = NotAsked
  /\ running = NoneRunning
  /\ entry = "server.py"

ApiState ==
  LET h == DoState(game, ai_player, ai_color)
  IN /\ game' = h.game
     /\ response' = h.response
     /\ lastOp' = "/api/state"
     /\ roundTrip' = NoRoundTrip
     /\ agent_move' = NotAsked
     /\ requested_mode' = NotAsked
     /\ UNCHANGED <<ai_color, ai_player, running, entry>>

ApiMove ==
  \E sfen \in SfenInputs(game) :
    LET h == DoMove(game, sfen, ai_player, ai_color)
    IN /\ Len(h.game._move_history) <= MaxPly
       /\ game' = h.game
       /\ response' = h.response
       /\ lastOp' = "/api/move"
       /\ roundTrip' = IF h.response.status = 200
                       THEN [stage  |-> "applied",
                             state  |-> game.state,
                             result |-> game.result]
                       ELSE NoRoundTrip
       /\ agent_move' = NotAsked
       /\ requested_mode' = NotAsked
     /\ UNCHANGED <<ai_color, ai_player, running, entry>>

ApiUndo ==
  LET h == DoUndo(game, ai_player, ai_color)
  IN /\ game' = h.game
     /\ response' = h.response
     /\ lastOp' = "/api/undo"
     /\ roundTrip' = IF roundTrip.stage = "applied"
                     THEN [roundTrip EXCEPT !.stage = "undone"]
                     ELSE NoRoundTrip
     /\ agent_move' = NotAsked
     /\ requested_mode' = NotAsked
     /\ UNCHANGED <<ai_color, ai_player, running, entry>>

ApiResign ==
  LET h == DoResign(game, ai_player, ai_color)
  IN /\ game' = h.game
     /\ response' = h.response
     /\ lastOp' = "/api/resign"
     /\ roundTrip' = NoRoundTrip
     /\ agent_move' = NotAsked
     /\ requested_mode' = NotAsked
     /\ UNCHANGED <<ai_color, ai_player, running, entry>>

ApiReset ==
  LET h == DoReset(game, ai_player, ai_color)
  IN /\ game' = h.game
     /\ response' = h.response
     /\ lastOp' = "/api/reset"
     /\ roundTrip' = [stage  |-> "reset",
                      result |-> game.result,
                      ply    |-> Len(game._move_history)]
     /\ agent_move' = NotAsked
     /\ requested_mode' = NotAsked
     /\ UNCHANGED <<ai_color, ai_player, running, entry>>

ApiConfig ==
  \E mode \in AiModeInputs :
    /\ ai_color' = AiColorOf(mode)
    /\ response' = ConfigResponse(AiColorOf(mode))
    /\ lastOp' = "/api/config"
    /\ roundTrip' = NoRoundTrip
    /\ agent_move' = NotAsked
    /\ requested_mode' = [asked |-> TRUE, mode |-> mode]
    /\ UNCHANGED <<game, ai_player, running, entry>>

ApiAiMove ==
  \E move \in AgentChoices(game) :
    LET h == DoAiMove(game, move, ai_player, ai_color)
    IN /\ Len(h.game._move_history) <= MaxPly
       /\ game' = h.game
       /\ response' = h.response
       /\ lastOp' = "/api/ai_move"
       /\ agent_move' = IF ai_player = NoneStr \/ game.result # "ONGOING"
                        THEN NotAsked
                        ELSE move
       /\ roundTrip' = NoRoundTrip
       /\ requested_mode' = NotAsked
     /\ UNCHANGED <<ai_color, ai_player, running, entry>>

Next ==
  \/ ApiState
  \/ ApiMove
  \/ ApiUndo
  \/ ApiResign
  \/ ApiReset
  \/ ApiConfig
  \/ ApiAiMove

Spec == Init /\ [][Next]_vars

\* ------------------------------------------------ the handlers step by step

\* ServeSpec runs each handler in steps: the request is accepted, the engine
\* call changes the session in two assignments where it changes both
\* histories, the projection is built and answered.  Whatever may run between
\* two steps of a handler is decided by CanAccept alone.

\* The longest move history ServeSpec explores.
ServeMaxPly == 2

\* run_test_server.py 10-12: serve_forever runs in the one thread started for
\* it while the main thread sleeps; server.py 287: it runs in the main thread.
ServeThread(e) == IF e = "server.py" THEN "MainThread" ELSE "Thread-1"

\* Mutant of CanAccept: a server that starts a thread for every request.
CanAcceptThreaded(handlers) == TRUE

\* server.py 283, 287 and run_test_server.py 7, 10: HTTPServer is the plain
\* socketserver.TCPServer, whose serve_forever loop calls the handler of one
\* request and takes the next request when that call has returned.
CanAccept(handlers) == \A c \in Clients : handlers[c] = Idle

NoArg == [none |-> TRUE]

\* What the clients send: every route, with a few tokens and modes.
ServeRequests(g) ==
  {[op |-> op, arg |-> NoArg] :
     op \in {"/api/state", "/api/undo", "/api/resign", "/api/reset",
             "/api/ai_move"}}
    \cup {[op |-> "/api/move", arg |-> [sfen |-> sfen]] : sfen \in SfenInputs(g)}
    \cup {[op |-> "/api/config", arg |-> [ai_mode |-> mode]] :
            mode \in {"white", NoneStr}}

\* Game.apply in two assignments: the move is recorded ...
ApplyBegin(g, m) == [g EXCEPT !._move_history = Append(@, m)]

\* ... and then the state before it, and the state advances.
ApplyEnd(g, m) ==
  LET after == AfterMove(g.state, m) IN
  [g EXCEPT !.state          = after,
            !.result         = IF LegalMovesIn(after) = {}
                               THEN WinOf(g.state.turn)
                               ELSE "ONGOING",
            !._state_history = Append(@, g.state)]

\* Game.undo in two assignments: the move is taken off ...
UndoBegin(g) ==
  [g EXCEPT !._move_history = SubSeq(@, 1, Len(@) - 1)]

\* ... and then its snapshot, which becomes the state.
UndoEnd(g) ==
  [g EXCEPT !.state          = g._state_history[Len(g._state_history)],
            !.result         = "ONGOING",
            !._state_history = SubSeq(@, 1, Len(@) - 1)]

Running(c, pc, op, arg) ==
  [running EXCEPT ![c] = [pc |-> pc, op |-> op, arg |-> arg,
                          thread |-> ServeThread(entry)]]

\* The handler of c returns with its answer.
Answer(c, op, resp) ==
  /\ running' = [running EXCEPT ![c] = Idle]
  /\ response' = resp
  /\ lastOp' = op

ServeInit ==
  /\ game = NewGame
  /\ ai_color = NoneStr
  /\ ai_player \in {"AIPlayer", NoneStr}
  /\ lastOp = "start"
  /\ response = NoResponse
  /\ agent_move = NotAsked
  /\ roundTrip = NoRoundTrip
  /\ requested_mode = NotAsked
  /\ running = NoneRunning
  /\ entry \in EntryPoints

\* The server takes a request off the socket and calls its handler.
ServeAccept ==
  \E c \in Clients : \E req \in ServeRequests(game) :
    /\ CanAccept(running)
    /\ running[c] = Idle
    /\ req.op \in {"/api/move", "/api/ai_move"}
         => Len(game._move_history) < ServeMaxPly
    /\ running' = Running(c, IF req.op = "/api/state" THEN "project"
                             ELSE "handle", req.op, req.arg)
    /\ UNCHANGED <<game, ai_color, ai_player, lastOp, response, agent_move,
                   roundTrip, requested_mode, entry>>

AtHandle(c, op) ==
  /\ running[c] # Idle
  /\ running[c].pc = "handle"
  /\ running[c].op = op

ServeUnchanged ==
  UNCHANGED <<ai_player, agent_move, roundTrip, requested_mode, entry>>

\* server.py 205-212: the token is parsed and the move applied, or refused.
ServeMove ==
  \E c \in Clients :
    /\ AtHandle(c, "/api/move")
    /\ LET sfen == running[c].arg.sfen
       IN IF ~SfenParses(sfen)
          THEN /\ Answer(c, "/api/move",
                         JsonResponse(ErrorData("ParseError"), 400))
               /\ UNCHANGED game
          ELSE IF ApplyRaises(game, ParseSfen(sfen))
          THEN /\ Answer(c, "/api/move",
                         JsonResponse(ErrorData("IllegalMoveError"), 400))
               /\ UNCHANGED game
          ELSE /\ game' = ApplyBegin(game, ParseSfen(sfen))
               /\ running' = Running(c, "finish", "/api/move",
                                     [move |-> ParseSfen(sfen)])
               /\ UNCHANGED <<response, lastOp>>
    /\ UNCHANGED ai_color
    /\ ServeUnchanged

\* server.py 214-219
ServeUndo ==
  \E c \in Clients :
    /\ AtHandle(c, "/api/undo")
    /\ IF UndoRaises(game)
       THEN /\ Answer(c, "/api/undo",
                      JsonResponse(ErrorData("EmptyHistory"), 400))
            /\ UNCHANGED game
       ELSE /\ game' = UndoBegin(game)
            /\ running' = Running(c, "finish", "/api/undo", NoArg)
            /\ UNCHANGED <<response, lastOp>>
    /\ UNCHANGED ai_color
    /\ ServeUnchanged

\* server.py 221-222
ServeResign ==
  \E c \in Clients :
    /\ AtHandle(c, "/api/resign")
    /\ game' = GameResign(game)
    /\ running' = Running(c, "project", "/api/resign", NoArg)
    /\ UNCHANGED <<response, lastOp, ai_color>>
    /\ ServeUnchanged

\* server.py 225-226
ServeReset ==
  \E c \in Clients :
    /\ AtHandle(c, "/api/reset")
    /\ game' = NewGame
    /\ running' = Running(c, "project", "/api/reset", NoArg)
    /\ UNCHANGED <<response, lastOp, ai_color>>
    /\ ServeUnchanged

\* server.py 229-239: answered without a projection.
ServeConfig ==
  \E c \in Clients :
    /\ AtHandle(c, "/api/config")
    /\ ai_color' = AiColorOf(running[c].arg.ai_mode)
    /\ Answer(c, "/api/config",
              ConfigResponse(AiColorOf(running[c].arg.ai_mode)))
    /\ UNCHANGED game
    /\ ServeUnchanged

\* server.py 241-250: the two refusals, the agent's choice, apply.
ServeAiMove ==
  \E c \in Clients :
    /\ AtHandle(c, "/api/ai_move")
    /\ IF ai_player = NoneStr
       THEN /\ Answer(c, "/api/ai_move",
                      JsonResponse(ErrorData(AiNotEnabled), 400))
            /\ UNCHANGED game
       ELSE IF game.result # "ONGOING"
       THEN /\ Answer(c, "/api/ai_move",
                      JsonResponse(ErrorData(GameAlreadyOver), 400))
            /\ UNCHANGED game
       ELSE \E move \in AgentChoices(game) :
              IF move = NoMove
              THEN /\ running' = Running(c, "project", "/api/ai_move", NoArg)
                   /\ UNCHANGED <<game, response, lastOp>>
              ELSE /\ game' = ApplyBegin(game, move)
                   /\ running' = Running(c, "finish", "/api/ai_move",
                                         [move |-> move])
                   /\ UNCHANGED <<response, lastOp>>
    /\ UNCHANGED ai_color
    /\ ServeUnchanged

\* The second assignment of Game.apply and of Game.undo.
ServeFinish ==
  \E c \in Clients :
    /\ running[c] # Idle
    /\ running[c].pc = "finish"
    /\ game' = IF running[c].op = "/api/undo"
               THEN UndoEnd(game)
               ELSE ApplyEnd(game, running[c].arg.move)
    /\ running' = Running(c, "project", running[c].op, NoArg)
    /\ UNCHANGED <<response, lastOp, ai_color>>
    /\ ServeUnchanged

\* server.py 196, 209, 217, 223, 227, 253: the projection is built and sent;
\* where it raises, /api/move and /api/undo answer 400 from their except
\* block and the other handlers send nothing.
ServeProject ==
  \E c \in Clients :
    /\ running[c] # Idle
    /\ running[c].pc = "project"
    /\ Answer(c, running[c].op,
              IF ~KifRaises(game)
              THEN SnapshotResponse(game, ai_player, ai_color)
              ELSE IF running[c].op \in {"/api/move", "/api/undo"}
              THEN JsonResponse(ErrorData("Exception"), 400)
              ELSE Crashed)
    /\ UNCHANGED <<game, ai_color>>
    /\ ServeUnchanged

ServeNext ==
  \/ ServeAccept
  \/ ServeMove
  \/ ServeUndo
  \/ ServeResign
  \/ ServeReset
  \/ ServeConfig
  \/ ServeAiMove
  \/ ServeFinish
  \/ ServeProject

ServeSpec == ServeInit /\ [][ServeNext]_vars

\* ------------------------------------------------- the projector by itself

\* The annotation grid is a function of the position alone.  ProjectorSpec
\* draws positions in which the three squares before and around each king
\* are rearranged, and reads their state; the histories that lead to such a
\* position are left out, the grid does not read them.

\* What stands on the two squares of the king's column the king is not on.
ColumnPieces ==
  {NoPiece, Piece("FU", BLACK), Piece("KI", BLACK), Piece("FU", WHITE)}

\* The same piece seen from the other side of the board.
Mirror(piece) ==
  IF piece = NoPiece THEN NoPiece
  ELSE Piece(piece.piece_type, Opponent(piece.color))

\* Ranks 6..8 of file 5: BLACK's king on rank k, a and b on the other two.
ColumnFill(k, a, b) ==
  [r \in 6..8 |->
     IF r = k THEN Piece("OU", BLACK)
     ELSE IF r = (IF k = 6 THEN 7 ELSE 6) THEN a
     ELSE b]

\* The starting position with file 5 rearranged, WHITE's end mirrored.
ProjectorBoard(k, a, b) ==
  [row \in 1..9 |-> [file \in 1..9 |->
     IF file # 5 THEN InitialBoard[row][file]
     ELSE IF row - 1 \in 6..8 THEN ColumnFill(k, a, b)[row - 1]
     ELSE IF row - 1 \in 0..2 THEN Mirror(ColumnFill(k, a, b)[8 - (row - 1)])
     ELSE InitialBoard[row][file]]]

ProjectorBoards ==
  {ProjectorBoard(k, a, b) : k \in 6..8, a \in ColumnPieces, b \in ColumnPieces}

ProjectorInit ==
  /\ game \in {[NewGame EXCEPT !.state.board = b] : b \in ProjectorBoards}
  /\ ai_color = NoneStr
  /\ ai_player \in {"AIPlayer", NoneStr}
  /\ lastOp = "start"
  /\ response = NoResponse
  /\ agent_move = NotAsked
  /\ roundTrip = NoRoundTrip
  /\ requested_mode = NotAsked
  /\ running = NoneRunning
  /\ entry = "server.py"

ProjectorNext == ApiState

ProjectorSpec == ProjectorInit /\ [][ProjectorNext]_vars

\* ------------------------------------------------------------------ claims

moveHistory == game._move_history
snapshotHistory == game._state_history

\* str.split("\n"): the lines of a text.
RECURSIVE SplitLines(_, _, _)
SplitLines(str, i, cur) ==
  IF i > Len(str) THEN <<cur>>
  ELSE IF str[i] = "NL" THEN <<cur>> \o SplitLines(str, i + 1, <<>>)
  ELSE SplitLines(str, i + 1, Append(cur, str[i]))

Lines(str) == SplitLines(str, 1, <<>>)

\* The notation of the session as it stands.
Transcript == _generate_kif_and_log(game).kif

\* The formal rendering of each recorded move: its transcript line without
\* the move number, right-aligned in four columns, and the blank.
FormalLines ==
  LET lines == Lines(Transcript)
  IN [i \in 1..Len(moveHistory) |->
        SubSeq(lines[Len(KifHeader) + i], 6, Len(lines[Len(KifHeader) + i]))]

Count(str, glyph) == Cardinality({k \in 1..Len(str) : str[k] = glyph})

HasSameSquareToken(str) ==
  \E k \in 1..Len(str) - 1 : SubSeq(str, k, k + 1) = SameSquareToken

CoordGlyphs ==
  {"Z1", "Z2", "Z3", "Z4", "Z5", "Z6", "Z7", "Z8", "Z9",
   "K1", "K2", "K3", "K4", "K5", "K6", "K7", "K8", "K9"}

HasCoordGlyph(str) == \E k \in 1..Len(str) : str[k] \in CoordGlyphs

StartsWith(str, prefix) ==
  Len(str) >= Len(prefix) /\ SubSeq(str, 1, Len(prefix)) = prefix

IsSnapshotResponse ==
  /\ response.status = 200
  /\ response.data = _game_state_to_json(game, ai_player, ai_color)

\* C1: in every reachable state the move history and the snapshot history
\* have the same length.
C1_HistoriesParallel == Len(moveHistory) = Len(snapshotHistory)

\* C1 witness: a history that grew and was cut back by an undo.
C1_Witness ==
  /\ lastOp = "/api/undo"
  /\ response.status = 200
  /\ Len(moveHistory) >= 2
  /\ Len(snapshotHistory) >= 2

\* C2: an undo right after a successful apply answers with the board
\* projection, both hands, the turn and the result of the state the move was
\* applied in.
C2_ApplyUndoRoundTrip ==
  roundTrip.stage = "undone" =>
    /\ response.status = 200
    /\ response.data.board = BoardData(roundTrip.state.board)
    /\ response.data.black_hand = roundTrip.state.hand[BLACK]
    /\ response.data.white_hand = roundTrip.state.hand[WHITE]
    /\ response.data.turn = roundTrip.state.turn
    /\ response.data.result = roundTrip.result

\* C2 witness: a capture was applied and undone, with an earlier capture
\* still in a hand.
C2_Witness ==
  /\ roundTrip.stage = "undone"
  /\ lastOp = "/api/undo"
  /\ Len(moveHistory) >= 1
  /\ \E c \in Color, pt \in HandTypes : game.state.hand[c][pt] > 0

\* C3: a request answered with an error leaves the session as it was.
C3_ErrorLeavesSession == [][response'.status = 400 => game' = game]_vars

\* C3 witness: each kind of refused request, here a refused move on a
\* session with history.
C3_Witness ==
  /\ lastOp = "/api/move"
  /\ response = JsonResponse(ErrorData("IllegalMoveError"), 400)
  /\ Len(moveHistory) >= 1

\* C4: the transcript has len(moveHistory) + 5 lines and the log
\* len(moveHistory) entries; with an empty history the transcript is the
\* header alone and the log is empty.
C4_TranscriptSize ==
  LET notation == _generate_kif_and_log(game)
      lines    == Lines(notation.kif)
  IN /\ Len(lines) = Len(moveHistory) + 5
     /\ Len(notation.log) = Len(moveHistory)
     /\ moveHistory = <<>> =>
          /\ lines = KifHeader
          /\ notation.kif = Join(KifHeader)
          /\ notation.log = <<>>

\* C4 witness: a history as long as the model allows.
C4_Witness == Len(moveHistory) >= 3 /\ Len(Lines(Transcript)) = Len(moveHistory) + 5

\* C5: when two consecutive board moves have the same destination, the
\* formal line of the second starts with the same-square token and holds no
\* file or rank glyph.
C5_SameSquareCompression ==
  LET FormalLine == FormalLines IN
  \A i \in 1..Len(moveHistory) - 1 :
    (/\ ~moveHistory[i].is_drop
     /\ ~moveHistory[i + 1].is_drop
     /\ moveHistory[i + 1].dst = moveHistory[i].dst)
    => /\ StartsWith(FormalLine[i + 1], SameSquareToken)
       /\ ~HasCoordGlyph(FormalLine[i + 1])

\* C5 witness: a recapture on the square just moved to.
C5_Witness ==
  \E i \in 1..Len(moveHistory) - 1 :
    /\ ~moveHistory[i].is_drop
    /\ ~moveHistory[i + 1].is_drop
    /\ moveHistory[i + 1].dst = moveHistory[i].dst

\* C6: the same-square token stands in the formal line of move i only if
\* move i is a board move, is not the first move, and goes where move i-1
\* went; the line of a drop and of the first move starts with the formatted
\* destination coordinates.
C6_CompressionOnlyThen ==
  LET FormalLine == FormalLines IN
  \A i \in 1..Len(moveHistory) :
    /\ HasSameSquareToken(FormalLine[i]) =>
         /\ ~moveHistory[i].is_drop
         /\ i > 1
         /\ moveHistory[i].dst = moveHistory[i - 1].dst
    /\ (moveHistory[i].is_drop \/ i = 1) =>
         /\ ~HasSameSquareToken(FormalLine[i])
         /\ StartsWith(FormalLine[i], DstCoords(moveHistory[i].dst))
         /\ HasCoordGlyph(FormalLine[i])

\* C6 witness: a history with a compressed line and, after it, a drop.
C6_Witness ==
  LET FormalLine == FormalLines IN
  /\ \E i \in 1..Len(moveHistory) : HasSameSquareToken(FormalLine[i])
  /\ \E i \in 1..Len(moveHistory) : moveHistory[i].is_drop

\* C7: a drop's formal line ends with the drop marker and has no
\* parenthesis; a board move's line has exactly one parenthesized suffix, the
\* raw file digit then the raw rank digit of its source square.
C7_DropAndSourceSuffix ==
  LET FormalLine == FormalLines IN
  \A i \in 1..Len(moveHistory) :
    LET m    == moveHistory[i]
        line == FormalLine[i]
    IN IF m.is_drop
       THEN /\ line[Len(line)] = "UTSU"
            /\ Count(line, "(") = 0
            /\ Count(line, ")") = 0
       ELSE /\ Count(line, "(") = 1
            /\ Count(line, ")") = 1
            /\ Len(line) >= 4
            /\ SubSeq(line, Len(line) - 3, Len(line)) =
                 <<"(", PyIndex(Digits, m.src.file),
                   PyIndex(Digits, m.src.rank), ")">>

\* C7 witness: a history with a drop and a promoting board move.
C7_Witness ==
  /\ \E i \in 1..Len(moveHistory) : moveHistory[i].is_drop
  /\ \E i \in 1..Len(moveHistory) :
       ~moveHistory[i].is_drop /\ moveHistory[i].promote

\* C8 as stated: an AI move requested on a finished game is answered with
\* GameAlreadyOver and the history keeps its length.
C8_AlwaysGameAlreadyOver ==
  [][(lastOp' = "/api/ai_move" /\ game.result # "ONGOING")
       => /\ response' = JsonResponse(ErrorData(GameAlreadyOver), 400)
          /\ Len(game'._move_history) = Len(game._move_history)]_vars

\* C8 amended: on a finished game the request is answered with
\* GameAlreadyOver when an agent is present and with AIUnavailable when none
\* is; the session is unchanged either way.
C8_GameOverOrUnavailable ==
  [][(lastOp' = "/api/ai_move" /\ game.result # "ONGOING")
       => /\ response' =
               IF ai_player = NoneStr
               THEN JsonResponse(ErrorData(AiNotEnabled), 400)
               ELSE JsonResponse(ErrorData(GameAlreadyOver), 400)
          /\ game' = game]_vars

\* C8 witness: the agent is present and the request was refused on a
\* finished game with history.
C8_Witness ==
  /\ lastOp = "/api/ai_move"
  /\ response = JsonResponse(ErrorData(GameAlreadyOver), 400)
  /\ game.result # "ONGOING"
  /\ ai_player # NoneStr
  /\ Len(moveHistory) >= 1

MutatingOps ==
  {"/api/move", "/api/undo", "/api/resign", "/api/reset", "/api/config",
   "/api/ai_move"}

\* C9 as stated: every successful mutating operation, configure included,
\* answers with the full snapshot recomputed from the session.
C9_AlwaysFullSnapshot ==
  (lastOp \in MutatingOps /\ response.status = 200) => IsSnapshotResponse

\* C9 amended: apply, undo, resign, reset and request-AI-move answer with the
\* full snapshot recomputed from the session after the mutation; configure
\* answers with a status record that carries the new assignment only.
C9_FullSnapshotButConfigure ==
  /\ (lastOp \in MutatingOps \ {"/api/config"} /\ response.status = 200)
       => IsSnapshotResponse
  /\ lastOp = "/api/config" => response = ConfigResponse(ai_color)

\* C9 witness: resignation of a game with history, answered with a snapshot
\* that shows the result.
C9_Witness ==
  /\ lastOp = "/api/resign"
  /\ response.status = 200
  /\ response.data.result # "ONGOING"
  /\ Len(moveHistory) >= 1

\* C10: when the agent is asked and returns no move, the session is
\* unchanged and the request is answered with the snapshot.
C10_NoMoveLeavesSession ==
  [][(lastOp' = "/api/ai_move" /\ agent_move' = NoMove)
       => /\ game' = game
          /\ response' = SnapshotResponse(game, ai_player, ai_color)]_vars

\* C10 witness: the agent returned no move on a session with history.
C10_Witness ==
  /\ lastOp = "/api/ai_move"
  /\ agent_move = NoMove
  /\ response.status = 200
  /\ Len(moveHistory) >= 1

\* C11: at most one handler runs at a time; the session a handler builds its
\* projection from is not in the middle of an engine call (the two histories
\* have the same length and the notation does not raise); no answer is cut
\* off by a raising projection; and when no handler runs, a snapshot last
\* answered is the snapshot of the session as it stands.  This holds from
\* both entry points.
C11_OneRequestAtATime ==
  /\ Cardinality({c \in Clients : running[c] # Idle}) <= 1
  /\ \A c \in Clients :
       running[c] # Idle =>
         /\ running[c].thread = ServeThread(entry)
         /\ running[c].pc = "project" =>
              /\ Len(moveHistory) = Len(snapshotHistory)
              /\ ~KifRaises(game)
  /\ response # Crashed
  /\ ( /\ \A c \in Clients : running[c] = Idle
       /\ response.status = 200
       /\ lastOp # "/api/config" ) => IsSnapshotResponse

\* C11 witness: under run_test_server.py, a state read is about to build its
\* projection after a move was applied and answered.
C11_Witness ==
  /\ entry = "run_test_server.py"
  /\ running["c2"] # Idle
  /\ running["c2"].op = "/api/state"
  /\ running["c2"].pc = "project"
  /\ lastOp = "/api/move"
  /\ response.status = 200
  /\ Len(moveHistory) >= 1

\* C12: a state read leaves the session, the AI side and the agent as they
\* were; a state read that follows a state read answers with the same
\* payload, and a state read that follows a mutating operation answers with
\* the payload that operation answered with.
C12_ReadLeavesSession ==
  [][lastOp' = "/api/state" =>
       /\ game' = game
       /\ ai_color' = ai_color
       /\ ai_player' = ai_player
       /\ lastOp = "/api/state" => response' = response
       /\ (lastOp \in MutatingOps \ {"/api/config"} /\ response.status = 200)
            => response' = response]_vars

\* C12 witness: a state read answered on a finished session with history.
C12_Witness ==
  /\ lastOp = "/api/state"
  /\ response.status = 200
  /\ Len(moveHistory) >= 1
  /\ game.result # "ONGOING"

\* C13: a reset succeeds in every state and leaves a fresh session: both
\* histories empty, result ongoing, ply 0, an empty log and a transcript of
\* the header lines only.
C13_ResetYieldsFreshSession ==
  [][lastOp' = "/api/reset" =>
       /\ game' = NewGame
       /\ moveHistory' = <<>>
       /\ snapshotHistory' = <<>>
       /\ game'.result = "ONGOING"
       /\ response'.status = 200
       /\ response'.data.result = "ONGOING"
       /\ response'.data.ply = 0
       /\ response'.data.log = <<>>
       /\ response'.data.kif = Join(KifHeader)]_vars

\* C13 witness: a finished session with history was reset.
C13_Witness ==
  /\ lastOp = "/api/reset"
  /\ roundTrip.stage = "reset"
  /\ roundTrip.result # "ONGOING"
  /\ roundTrip.ply >= 1
  /\ game = NewGame

\* C14: the AI side changes in no request but /api/config; /api/config
\* leaves the session as it was and sets the AI side to BLACK for "black", to
\* WHITE for "white" and to none for every other mode.
C14_AssignmentOnlyByConfigure ==
  [][/\ lastOp' # "/api/config" => ai_color' = ai_color
     /\ lastOp' = "/api/config" =>
          /\ game' = game
          /\ requested_mode'.asked
          /\ ai_color' = (CASE requested_mode'.mode = "black" -> "BLACK"
                            [] requested_mode'.mode = "white" -> "WHITE"
                            [] OTHER -> NoneStr)
          /\ response'.data.ai_color = ai_color']_vars

\* C14 witness: a mode that is not recognised cleared the AI side of a
\* session with history.
C14_Witness ==
  /\ lastOp = "/api/config"
  /\ requested_mode.asked
  /\ requested_mode.mode = "BLACK"
  /\ ai_color = NoneStr
  /\ Len(moveHistory) >= 1

\* C15: a state read answers with the annotation grid of the position; the
\* grid is nine rows of nine cells like the board grid, a cell is empty where
\* the board cell is, and a cell is filled if and only if its square holds a
\* piece that is no king, the engine's query for it does not raise, and the
\* effective kind differs from the piece's own; the cell then names that
\* effective kind.
C15_AnnotationIff ==
  LET board == game.state.board
      info  == AnnanInfo(board)
      cells == BoardData(board)
  IN /\ (lastOp = "/api/state" /\ response.status = 200)
          => response.data.annan_info = info
     /\ DOMAIN info = 1..9
     /\ \A row \in 1..9 : DOMAIN info[row] = 1..9
     /\ DOMAIN cells = 1..9
     /\ \A row \in 1..9 : DOMAIN cells[row] = 1..9
     /\ \A rank \in Ranks, file \in Files :
          LET sq    == Square(file, rank)
              cell  == info[rank + 1][10 - file]
              piece == BoardAt(board, sq)
          IN /\ cells[rank + 1][10 - file] = JNull => cell = JNull
             /\ (cell # JNull) <=>
                  /\ piece # NoPiece
                  /\ piece.piece_type # "OU"
                  /\ ~EffectiveTypeRaises(board, sq, piece.color)
                  /\ get_effective_piece_type(board, sq, piece.color)
                       # piece.piece_type
             /\ cell # JNull =>
                  cell.effective_type =
                    get_effective_piece_type(board, sq, piece.color)

\* C15 witness: a position was read in which a king stands before a friend
\* of another kind, a piece carries an annotation, a piece has its own kind
\* as effective kind, and the query raises for a piece.
C15_Witness ==
  LET board == game.state.board IN
  /\ lastOp = "/api/state"
  /\ response.status = 200
  /\ \E sq \in Squares :
       /\ IsOccupied(board, sq)
       /\ BoardAt(board, sq).piece_type = "OU"
       /\ ~EffectiveTypeRaises(board, sq, BoardAt(board, sq).color)
       /\ get_effective_piece_type(board, sq, BoardAt(board, sq).color) # "OU"
  /\ \E sq \in Squares : AnnanCell(board, sq) # JNull
  /\ \E sq \in Squares :
       /\ IsOccupied(board, sq)
       /\ BoardAt(board, sq).piece_type # "OU"
       /\ ~EffectiveTypeRaises(board, sq, BoardAt(board, sq).color)
       /\ AnnanCell(board, sq) = JNull
  /\ \E sq \in Squares :
       /\ IsOccupied(board, sq)
       /\ BoardAt(board, sq).piece_type # "OU"
       /\ EffectiveTypeRaises(board, sq, BoardAt(board, sq).color)

\* C16: the move history grows by one in a successful /api/move and in an
\* /api/ai_move that obtained a move, shrinks by one in a successful
\* /api/undo, is empty after /api/reset, and keeps its length in every other
\* request, refused ones included; an undo of an empty history is refused.
C16_HistoryLength ==
  [][LET old == Len(game._move_history)
         new == Len(game'._move_history)
     IN /\ new >= 0
        /\ lastOp' = "/api/move" =>
             new = IF response'.status = 200 THEN old + 1 ELSE old
        /\ lastOp' = "/api/ai_move" =>
             new = IF /\ response'.status = 200
                      /\ agent_move' # NotAsked
                      /\ agent_move' # NoMove
                   THEN old + 1 ELSE old
        /\ lastOp' = "/api/undo" =>
             /\ new = IF response'.status = 200 THEN old - 1 ELSE old
             /\ old = 0 => response'.status = 400
        /\ lastOp' = "/api/reset" => new = 0
        /\ lastOp' \in {"/api/resign", "/api/config", "/api/state"} =>
             new = old]_vars

\* C16 witness: an undo was refused on an empty history, the AI side set.
C16_Witness ==
  /\ lastOp = "/api/undo"
  /\ response.status = 400
  /\ Len(moveHistory) = 0
  /\ roundTrip = NoRoundTrip
  /\ ai_color # NoneStr

\* C17: the notation never raises; for every recorded board move the
\* snapshot taken before it holds, on the source square, a piece of the side
\* to move in that snapshot, and the transcript line and the log entry show
\* the glyph of that piece's kind, followed by the promotion marker exactly
\* when the move promotes (the kind is then an unpromoted one).
C17_PreMoveNominalKind ==
  /\ ~KifRaises(game)
  /\ LET FormalLine == FormalLines
         log        == _generate_kif_and_log(game).log
     IN \A i \in 1..Len(moveHistory) :
          LET m    == moveHistory[i]
              snap == snapshotHistory[i]
          IN ~m.is_drop =>
               /\ IsOccupied(snap.board, m.src)
               /\ BoardAt(snap.board, m.src).color = snap.turn
               /\ LET kind   == BoardAt(snap.board, m.src).piece_type
                      glyphs == _PIECE_KANJI[kind] \o
                                  (IF m.promote THEN <<"NARI">> ELSE <<>>)
                      line   == FormalLine[i]
                  IN /\ m.promote => kind \in Promotable
                     /\ SubSeq(line, 1, Len(line) - 4) \in
                          {SameSquareToken \o glyphs, DstCoords(m.dst) \o glyphs}
                     /\ SubSeq(log[i], 1, Len(log[i]) - 4) =
                          TurnMark(snap) \o DstCoords(m.dst) \o glyphs
                     /\ Count(line, "NARI") = (IF m.promote THEN 1 ELSE 0)
                     /\ Count(log[i], "NARI") = (IF m.promote THEN 1 ELSE 0)

\* C17 witness: a piece promoted and then moved again as the promoted piece.
C17_Witness ==
  /\ \E i \in 1..Len(moveHistory) :
       /\ ~moveHistory[i].is_drop
       /\ moveHistory[i].promote
       /\ \E j \in (i + 1)..Len(moveHistory) :
            /\ ~moveHistory[j].is_drop
            /\ moveHistory[j].src = moveHistory[i].dst
            /\ BoardAt(snapshotHistory[j].board, moveHistory[j].src).piece_type
                 \notin Promotable \cup {"OU", "KI"}
  /\ lastOp = "/api/move"
  /\ response.status = 200

\* C18: a successful /api/move, and an /api/ai_move that obtained a move,
\* leave the transcript of before with one line appended and the log of
\* before with one entry appended, and answer with them; a successful
\* /api/undo leaves the transcript without its last line and the log without
\* its last entry.
C18_NotationIncremental ==
  [][/\ ( /\ lastOp' \in {"/api/move", "/api/ai_move"}
          /\ response'.status = 200
          /\ Len(game'._move_history) = Len(game._move_history) + 1 ) =>
            LET old    == _generate_kif_and_log(game)
                newKif == response'.data.kif
                newLog == response'.data.log
                line   == SubSeq(newKif, Len(old.kif) + 2, Len(newKif))
            IN /\ _generate_kif_and_log(game') = [log |-> newLog, kif |-> newKif]
               /\ newKif = old.kif \o <<"NL">> \o line
               /\ Count(line, "NL") = 0
               /\ newLog = Append(old.log, newLog[Len(newLog)])
     /\ (lastOp' = "/api/undo" /\ response'.status = 200) =>
            LET old    == _generate_kif_and_log(game)
                newKif == response'.data.kif
                newLog == response'.data.log
                line   == SubSeq(old.kif, Len(newKif) + 2, Len(old.kif))
            IN /\ _generate_kif_and_log(game') = [log |-> newLog, kif |-> newKif]
               /\ old.kif = newKif \o <<"NL">> \o line
               /\ Count(line, "NL") = 0
               /\ old.log = Append(newLog, old.log[Len(old.log)])]_vars

\* C18 witness: the agent's move was appended as a same-square line to a
\* history of two moves.
C18_Witness ==
  /\ lastOp = "/api/ai_move"
  /\ response.status = 200
  /\ agent_move # NotAsked
  /\ agent_move # NoMove
  /\ Len(moveHistory) = 3
  /\ LET FormalLine == FormalLines
     IN HasSameSquareToken(FormalLine[3])

FileGlyphs == {"Z1", "Z2", "Z3", "Z4", "Z5", "Z6", "Z7", "Z8", "Z9"}
RankGlyphs == {"K1", "K2", "K3", "K4", "K5", "K6", "K7", "K8", "K9"}

\* C19 as stated: every destination the notation renders, on any square the
\* projector traverses, is two glyphs, a file glyph and then a rank glyph,
\* and squares of different rows get different rank glyphs.
C19_DestinationTwoGlyphs ==
  LET log == _generate_kif_and_log(game).log
  IN \A i \in 1..Len(moveHistory) :
       LET dst    == moveHistory[i].dst
           glyphs == DstCoords(dst)
       IN /\ dst.file \in Files /\ dst.rank \in Ranks
          /\ Len(glyphs) = 2
          /\ glyphs[1] \in FileGlyphs
          /\ glyphs[2] \in RankGlyphs
          /\ SubSeq(log[i], 2, 3) = glyphs
          /\ \A sq \in Squares :
               sq.rank # dst.rank =>
                 PyIndex(_KANJI_NUMS, sq.rank) # PyIndex(_KANJI_NUMS, dst.rank)

\* C20: with an agent present and the game ongoing, /api/ai_move asks the
\* agent whatever the AI side is, records the move the agent returns for the
\* side to move, and leaves the AI side as it was; the answer reports it.
C20_AiMoveIgnoresAssignment ==
  [][(lastOp' = "/api/ai_move" /\ ai_player # NoneStr
        /\ game.result = "ONGOING") =>
       /\ agent_move' # NotAsked
       /\ ai_color' = ai_color
       /\ response'.status = 200
       /\ response'.data.ai_color = ai_color
       /\ agent_move' # NoMove =>
            /\ game' = GameApply(game, agent_move')
            /\ game'._move_history = Append(game._move_history, agent_move')
            /\ game'.state.turn = Opponent(game.state.turn)]_vars

\* C20 witness: the agent moved for the side that is not the AI side.
C20_Witness ==
  /\ lastOp = "/api/ai_move"
  /\ response.status = 200
  /\ agent_move # NotAsked
  /\ agent_move # NoMove
  /\ ai_color \in Color
  /\ snapshotHistory[Len(snapshotHistory)].turn # ai_color

====
